---- MODULE Spec2Model ----
(***************************************************************************)
(* Model of packages/tui/internal/app/app.go: the client-side controller   *)
(* of the opencode terminal UI.                                            *)
(*                                                                         *)
(*   Spec         the owner (bubbletea Update loop) calling the App        *)
(*                methods, the batched commands and background goroutines  *)
(*                they start, and the remote service answering;            *)
(*   SpecResolve  the command returned by App.InitializeProvider applied   *)
(*                to every bounded provider list and persisted selection;  *)
(*   SpecList     App.ListSessions applied to every bounded session list.  *)
(*                                                                         *)
(* Go pointers are records with a field nil; ids are strings, the empty    *)
(* string being Go's zero value.  The module imports bubbletea/v2, so the  *)
(* go directive is >= 1.22 and every range loop iteration has its own      *)
(* loop variable (&provider names the element of that iteration).          *)
(***************************************************************************)
EXTENDS Integers, Sequences, FiniteSets, TLC

\* ------------------------------------------------------------- bounds
MaxProviders == 2
MaxListed == 3
MaxCalls == 3
MaxStartupProviders == 1

\* ------------------------------------------------------------ values
ProviderIds == <<"anthropic", "openai", "google">>
ModelIds == {"m1", "m2"}
Texts == {"hi"}
CreatedTimes == {1, 5, 9}

NilModel == [nil |-> TRUE, Id |-> ""]
ModelPtr(id) == [nil |-> FALSE, Id |-> id]
NilProvider == [nil |-> TRUE, Id |-> "", Models |-> {}]
ProviderPtr(p) == [nil |-> FALSE, Id |-> p.Id, Models |-> p.Models]

Range(s) == {s[i] : i \in 1..Len(s)}

\* ---------------------------------------------- provider resolution
\* A provider id -> model id map, as a function on a set of provider ids.
HasKey(m, k) == k \in DOMAIN m

\* getDefaultModel: the mapped model (Go's zero ModelInfo when the provider has
\* no model under the mapped id), else the first model that ranging over the
\* map yields (pick names it: Go's map order is unspecified), else nil.
getDefaultModel(response, provider, pick) ==
  IF HasKey(response.Default, provider.Id)
  THEN IF response.Default[provider.Id] \in provider.Models
       THEN ModelPtr(response.Default[provider.Id])
       ELSE ModelPtr("")
  ELSE IF provider.Models = {}
       THEN NilModel
       ELSE ModelPtr(pick[provider.Id])

\* Lines 149-154: the last provider whose id is "anthropic", or nil.
RECURSIVE FindAnthropic(_, _, _)
FindAnthropic(providers, i, found) ==
  IF i > Len(providers) THEN found
  ELSE FindAnthropic(providers, i + 1,
         IF providers[i].Id = "anthropic" THEN ProviderPtr(providers[i]) ELSE found)

SeedNeverAnthropic(response, pick) ==
  [provider |-> NilProvider, model |-> NilModel]

\* Lines 156-160: default to anthropic if available.
SeedDefault(response, pick) ==
  LET anthropic == FindAnthropic(response.Providers, 1, NilProvider)
  IN IF ~anthropic.nil
     THEN [provider |-> anthropic,
           model |-> getDefaultModel(response, anthropic, pick)]
     ELSE [provider |-> NilProvider, model |-> NilModel]

FallbackKeepsProvider(d) == d.provider.nil

\* Line 163: the loop replaces the default while either half of it is nil.
FallbackNeeded(d) == d.provider.nil \/ d.model.nil

\* Lines 162-168: the loop over the providers in the order returned.
RECURSIVE DefaultLoop(_, _, _, _)
DefaultLoop(response, pick, i, d) ==
  IF i > Len(response.Providers) THEN d
  ELSE DefaultLoop(response, pick, i + 1,
         IF FallbackNeeded(d)
         THEN [provider |-> ProviderPtr(response.Providers[i]),
               model |-> getDefaultModel(response, response.Providers[i], pick)]
         ELSE d)

ComputeDefault(response, pick) ==
  DefaultLoop(response, pick, 1, SeedDefault(response, pick))

\* Lines 180-184: the model of the provider whose id is the persisted model id.
FindModel(provider, modelID) ==
  IF modelID \in provider.Models THEN ModelPtr(modelID) ELSE NilModel

\* Lines 174-186: every provider with the persisted id sets currentProvider,
\* and currentModel when it has the persisted model.
RECURSIVE FindCurrent(_, _, _, _)
FindCurrent(providers, state, i, cur) ==
  IF i > Len(providers) THEN cur
  ELSE FindCurrent(providers, state, i + 1,
         IF providers[i].Id = state.Provider
         THEN [provider |-> ProviderPtr(providers[i]),
               model |-> IF FindModel(providers[i], state.Model).nil
                         THEN cur.model
                         ELSE FindModel(providers[i], state.Model)]
         ELSE cur)

\* Lines 187-190: unless both were found, both are replaced by the default.
Reconcile(cur, def) ==
  IF cur.provider.nil \/ cur.model.nil THEN def ELSE cur

\* The command of InitializeProvider (lines 134-197) on one response:
\*   kind "none"  the command returns nil (no message),
\*   kind "panic" *currentModel dereferences nil at line 195,
\*   kind "msg"   ModelSelectedMsg{Provider, Model}.
\* def is the default pair of lines 146-168, kept for the claims about it.
ResolveProvider(response, state, pick) ==
  IF response.status # "ok"
  THEN [kind |-> "none", Provider |-> NilProvider, Model |-> NilModel,
        def |-> [provider |-> NilProvider, model |-> NilModel]]
  ELSE IF Len(response.Providers) = 0
  THEN [kind |-> "none", Provider |-> NilProvider, Model |-> NilModel,
        def |-> ComputeDefault(response, pick)]
  ELSE LET def == ComputeDefault(response, pick)
           cur == Reconcile(FindCurrent(response.Providers, state, 1,
                              [provider |-> NilProvider, model |-> NilModel]), def)
       IN IF cur.provider.nil \/ cur.model.nil
          THEN [kind |-> "panic", Provider |-> cur.provider, Model |-> cur.model,
                def |-> def]
          ELSE [kind |-> "msg", Provider |-> cur.provider, Model |-> cur.model,
                def |-> def]

\* The picks Go's map iteration can make: for each provider one of its models.
Picks(response) ==
  {pick \in [Range(ProviderIds) -> ModelIds \cup {""}] :
     \A id \in Range(ProviderIds) :
       LET ps == {p \in Range(response.Providers) : p.Id = id /\ p.Models # {}}
       IN IF ps = {} THEN pick[id] = ""
          ELSE \E p \in ps : pick[id] \in p.Models}

\* ------------------------------------------------------ ListSessions
SessionLessAscending(a, b) == b.Created - a.Created > 0

\* Line 400: the less function handed to sort.Slice.
SessionLess(a, b) == a.Created - b.Created > 0

Orderings(s) ==
  {p \in [1..Len(s) -> Range(s)] : \A i, j \in 1..Len(s) : p[i] = p[j] => i = j}

\* sort.Slice (line 399) at its contract: some permutation of the slice in
\* which no element is less than an earlier one.  "The sort is not guaranteed
\* to be stable": which of the permutations that differ only in the order of
\* equal elements comes out is the library's choice (insertion sort up to 12
\* elements, pattern-defeating quicksort with range reversal above).
SortSlice(s) ==
  {p \in Orderings(s) :
     \A i, j \in 1..Len(s) : i < j => ~SessionLess(p[j], p[i])}

\* ListSessions (lines 386-404) on the service's response.
ListSessionsResults(resp) ==
  IF resp.status = "err" \/ resp.status = "status"
  THEN {[kind |-> "err", sessions |-> <<>>]}
  ELSE IF resp.status = "nil200"
  THEN {[kind |-> "ok", sessions |-> <<>>]}
  ELSE {[kind |-> "ok", sessions |-> p] : p \in SortSlice(resp.sessions)}

\* ------------------------------------------------------------- state
VARIABLES
  Session,    \* a.Session: [Id], Id 0 the empty id of &client.SessionInfo{}
  Messages,   \* a.Messages
  Provider,   \* a.Provider, a pointer
  Model,      \* a.Model, a pointer
  State,      \* a.State: the persisted [Provider, Model] ids
  owner,      \* the owner context: idle, or inside a call waiting for CreateSession
  cmds,       \* commands handed to the runtime that have not delivered their message
  gos,        \* goroutines started with go func() that have not run
  log,        \* history: the remote requests and notifications so far
  svc,        \* the service: number of sessions it has created
  now,        \* the clock read by time.Now()
  calls,      \* how many times the owner called each operation
  fault,      \* a nil dereference ended the process
  response,   \* SpecResolve: the service's answer to the provider list request
  resolved,   \* SpecResolve: what the InitializeProvider command produced
  served,     \* SpecList: the service's answer to the session list request
  listed,     \* SpecList: what ListSessions returned
  appState,   \* New: the state config.LoadState read (the last used selection)
  configModel \* New: configInfo.Model, a pointer to a "provider/model" string

mainVars == <<Session, Messages, Provider, Model, owner, cmds, gos, log, svc,
              now, calls, fault>>
resolveVars == <<response, resolved, appState, configModel>>
listVars == <<served, listed>>
vars == <<Session, Messages, Provider, Model, State, owner, cmds, gos, log, svc,
          now, calls, fault, response, resolved, served, listed, appState,
          configModel>>

NoResponse == [status |-> "none", Providers |-> <<>>, Default |-> <<>>]
Pending == [kind |-> "pending", Provider |-> NilProvider, Model |-> NilModel,
            def |-> [provider |-> NilProvider, model |-> NilModel]]
NoServed == [status |-> "none", sessions |-> <<>>]
NotListed == [kind |-> "pending", sessions |-> <<>>]

\* New (lines 118-128): an empty session, no messages, no selection yet.
MainInit ==
  /\ Session = [Id |-> 0]
  /\ Messages = <<>>
  /\ Provider = NilProvider
  /\ Model = NilModel
  /\ owner = [pc |-> "idle", call |-> 0, text |-> "", resp |-> "none"]
  /\ cmds = {}
  /\ gos = {}
  /\ log = {}
  /\ svc = 0
  /\ now = 0
  /\ calls = [send |-> 0, project |-> 0, compact |-> 0, provider |-> 0,
              cancel |-> 0, delete |-> 0]
  /\ fault = FALSE

\* A string of the config, as the sequence of its pieces: a piece is a run of
\* characters other than '/', or the separator "/" itself.
NilConfig == [nil |-> TRUE, v |-> <<>>]
ConfigPtr(v) == [nil |-> FALSE, v |-> v]

\* strings.Split(s, "/") of line 92: the substrings between the separators.
RECURSIVE Split(_, _)
Split(s, acc) ==
  IF s = <<>> THEN acc
  ELSE IF Head(s) = "/"
  THEN Split(Tail(s), Append(acc, ""))
  ELSE Split(Tail(s), [acc EXCEPT ![Len(acc)] = @ \o Head(s)])

\* strings.Join(elems, "/") of line 94.
RECURSIVE Join(_)
Join(elems) ==
  IF elems = <<>> THEN ""
  ELSE IF Len(elems) = 1 THEN elems[1]
  ELSE elems[1] \o "/" \o Join(Tail(elems))

\* New (lines 81-95): the loaded state, its selection overwritten by the model
\* of the config when there is one.
NewState(loaded, model) ==
  IF model.nil THEN loaded
  ELSE LET splits == Split(model.v, <<"">>)
       IN [Provider |-> splits[1], Model |-> Join(Tail(splits))]

NoState == [Provider |-> "", Model |-> ""]
ResolveIdle ==
  /\ response = NoResponse /\ resolved = Pending
  /\ appState = NoState /\ configModel = NilConfig
ListIdle == served = NoServed /\ listed = NotListed

\* ------------------------------------------------------- SpecResolve
\* Provider lists: up to MaxProviders providers with distinct ids, each with
\* any set of models; the default map has an entry for any subset of them.
ProviderLists ==
  UNION {{ps \in [1..n -> [Id : Range(ProviderIds), Models : SUBSET ModelIds]] :
            \A i, j \in 1..n : ps[i].Id = ps[j].Id => i = j} : n \in 0..MaxProviders}

DefaultMaps(ps) ==
  UNION {[D -> ModelIds] : D \in SUBSET {p.Id : p \in Range(ps)}}

Responses ==
  {[status |-> "err", Providers |-> <<>>, Default |-> <<>>],
   [status |-> "status", Providers |-> <<>>, Default |-> <<>>]}
  \cup UNION {{[status |-> "ok", Providers |-> ps, Default |-> d] : d \in DefaultMaps(ps)}
              : ps \in ProviderLists}

PersistedStates ==
  [Provider : Range(ProviderIds) \cup {""}, Model : ModelIds \cup {""}]

ResolveInit ==
  /\ MainInit
  /\ ListIdle
  /\ response \in Responses
  /\ appState \in PersistedStates
  /\ configModel = NilConfig
  /\ State = NewState(appState, configModel)
  /\ resolved = Pending

\* The command returned by InitializeProvider runs once.
RunInitializeProvider ==
  /\ resolved.kind = "pending"
  /\ \E pick \in Picks(response) :
       resolved' = ResolveProvider(response, State, pick)
  /\ UNCHANGED <<mainVars, State, response, appState, configModel, listVars>>

ResolveNext == RunInitializeProvider

SpecResolve == ResolveInit /\ [][ResolveNext]_vars

\* ------------------------------------------------------- SpecStartup
\* New followed by the command of InitializeProvider: every last used
\* selection, every config model below, provider lists of up to
\* MaxStartupProviders providers.
ConfigModels ==
  {NilConfig}
  \cup {ConfigPtr(<<p, "/", m>>) : p \in Range(ProviderIds), m \in ModelIds}
  \cup {ConfigPtr(<<m>>) : m \in ModelIds}
  \cup {ConfigPtr(<<"openai", "/", "m1", "/", "m2">>)}

StartupInit ==
  /\ MainInit
  /\ ListIdle
  /\ response \in {r \in Responses : Len(r.Providers) <= MaxStartupProviders}
  /\ appState \in PersistedStates
  /\ configModel \in ConfigModels
  /\ State = NewState(appState, configModel)
  /\ resolved = Pending

SpecStartup == StartupInit /\ [][ResolveNext]_vars

\* ---------------------------------------------------------- SpecList
SessionLists ==
  UNION {{[i \in 1..n |-> [Id |-> i, Created |-> t[i]]] : t \in [1..n -> CreatedTimes]}
         : n \in 0..MaxListed}

ServedResponses ==
  {[status |-> st, sessions |-> <<>>] : st \in {"err", "status", "nil200"}}
  \cup {[status |-> "ok", sessions |-> s] : s \in SessionLists}

ListInit ==
  /\ MainInit
  /\ State = [Provider |-> "", Model |-> ""]
  /\ ResolveIdle
  /\ served \in ServedResponses
  /\ listed = NotListed

ListSessions ==
  /\ listed.kind = "pending"
  /\ listed' \in ListSessionsResults(served)
  /\ UNCHANGED <<mainVars, State, resolveVars, served>>

ListNext == ListSessions

SpecList == ListInit /\ [][ListNext]_vars

\* -------------------------------------------------------------- Spec
NilTime == [nil |-> TRUE, at |-> 0]
TimePtr(t) == [nil |-> FALSE, at |-> t]

\* A command or goroutine: what it is, the owner call that made it, and the
\* values its closure or message carries (mid: a message id or a toast text).
Task(kind, call, sid, mid, prov, mod) ==
  [kind |-> kind, call |-> call, sid |-> sid, mid |-> mid, prov |-> prov, mod |-> mod]
Cmd(kind, call) == Task(kind, call, 0, <<>>, "", "")
CreateToast(call) == Task("Toast", call, 0, <<"failed to create session">>, "", "")
\* Lines 352 and 357: "failed to send message: " followed by the error or the
\* status code.
ChatToast(call, outcome) ==
  Task("Toast", call, 0, <<"failed to send message: ", outcome>>, "", "")

\* A history entry: a remote request (ev names it, op the operation of the App
\* that makes it, by the context it is made in), or the delivery of an
\* OptimisticMessageAddedMsg to the owner (ev "notify").
Event(ev, op, by, call, sid, prov, mod) ==
  [ev |-> ev, op |-> op, by |-> by, call |-> call, sid |-> sid, prov |-> prov,
   mod |-> mod]

\* The answer of the service to a request made by a closure or a goroutine.
Answer(ev, op, call, outcome) ==
  [ev |-> ev, op |-> op, by |-> "service", call |-> call, sid |-> 0, prov |-> "",
   mod |-> "", outcome |-> outcome]

Idle == [pc |-> "idle", call |-> 0, text |-> "", resp |-> "none"]
Waiting(pc, call, text) == [pc |-> pc, call |-> call, text |-> text, resp |-> "none"]
NextCall ==
  calls.send + calls.project + calls.compact + calls.provider + calls.cancel
    + calls.delete + 1
\* The owner starts at most MaxCalls operations.
MayCall == NextCall <= MaxCalls
Failures == {"err", "status"}
Outcomes == {"ok"} \cup Failures

CreateSessionFailsOnErrOnly(outcome) == outcome = "err"

\* CreateSession (lines 295-305): a transport error or a status other than 200
\* is an error; otherwise the session of the response is returned.
CreateSessionFails(outcome) == outcome \in Failures

NoSessionAlways(session) == TRUE

\* Line 309: no session is active.
NoSession(session) == session.Id = 0

StoredSessionKept(old, created) == old

\* Lines 244 and 314: a.Session = session.
StoredSession(old, created) == created

OptimisticMessageCompleted(text, sid, t) ==
  [Id |-> <<"optimistic-", t>>, Role |-> "user", Text |-> text, SessionID |-> sid,
   Created |-> t, Completed |-> TimePtr(t)]

\* Lines 325-339: the optimistic message; Completed is left nil.
OptimisticMessage(text, sid, t) ==
  [Id |-> <<"optimistic-", t>>, Role |-> "user", Text |-> text, SessionID |-> sid,
   Created |-> t, Completed |-> NilTime]

AppendOptimisticDropped(messages, m) == messages
AppendOptimisticReplaces(messages, m) == <<m>>

\* Line 341: a.Messages = append(a.Messages, optimisticMessage).
AppendOptimistic(messages, m) == Append(messages, m)

\* IsBusy (lines 219-226).
IsBusy ==
  IF Len(Messages) = 0 THEN FALSE
  ELSE Messages[Len(Messages)].Completed.nil

\* Lines 318-366, once the session is known: build and append the optimistic
\* message, then batch the notification and the chat closure behind pre (the
\* session-selected command, when a session was created).  The chat closure
\* is tagged with the id of the message of its call.
SendTail(session, call, text, pre) ==
  \E t \in {now, now + 1} :
    /\ now' = t
    /\ Messages' = AppendOptimistic(Messages, OptimisticMessage(text, session.Id, t))
    /\ cmds' = cmds \cup pre
                 \cup {Task("OptimisticAdded", call, session.Id, <<"optimistic-", t>>, "", ""),
                       Task("Chat", call, 0, <<"optimistic-", t>>, "", "")}

\* SendChatMessage with a session (line 309 false): the whole call.
SendChatMessage ==
  /\ ~fault /\ owner.pc = "idle" /\ MayCall
  /\ ~NoSession(Session)
  /\ \E text \in Texts : SendTail(Session, NextCall, text, {})
  /\ calls' = [calls EXCEPT !.send = @ + 1]
  /\ UNCHANGED <<Session, Provider, Model, State, owner, gos, log, svc, fault,
                 resolveVars, listVars>>

\* SendChatMessage without a session (lines 309-310): the owner issues the
\* CreateSession request and waits for its response.
SendChatMessageCreate ==
  /\ ~fault /\ owner.pc = "idle" /\ MayCall
  /\ NoSession(Session)
  /\ \E text \in Texts : owner' = Waiting("SendChatMessage", NextCall, text)
  /\ log' = log \cup {Event("CreateSession", "SendChatMessage", "owner", NextCall,
                            0, "", "")}
  /\ calls' = [calls EXCEPT !.send = @ + 1]
  /\ UNCHANGED <<Session, Messages, Provider, Model, State, cmds, gos, svc, now,
                 fault, resolveVars, listVars>>

\* Line 296: the service answers the CreateSession request the owner waits on;
\* an answer of 200 carries a session with a fresh id.
CreateSessionResponse ==
  /\ ~fault /\ owner.pc # "idle" /\ owner.resp = "none"
  /\ \E outcome \in Outcomes :
       /\ owner' = [owner EXCEPT !.resp = outcome]
       /\ svc' = IF outcome = "ok" THEN svc + 1 ELSE svc
  /\ UNCHANGED <<Session, Messages, Provider, Model, State, cmds, gos, log, now,
                 calls, fault, resolveVars, listVars>>

\* Lines 311-313: CreateSession failed; the call returns an error toast command.
SendChatMessageAbort ==
  /\ ~fault /\ owner.pc = "SendChatMessage" /\ owner.resp # "none"
  /\ CreateSessionFails(owner.resp)
  /\ cmds' = cmds \cup {CreateToast(owner.call)}
  /\ owner' = Idle
  /\ UNCHANGED <<Session, Messages, Provider, Model, State, gos, log, svc, now,
                 calls, fault, resolveVars, listVars>>

\* Lines 314-366: CreateSession succeeded; the session is stored and the send
\* goes on.
SendChatMessageCreated ==
  /\ ~fault /\ owner.pc = "SendChatMessage" /\ owner.resp # "none"
  /\ ~CreateSessionFails(owner.resp)
  /\ Session' = StoredSession(Session, [Id |-> svc])
  /\ SendTail(Session', owner.call, owner.text,
              {Task("SessionSelected", owner.call, svc, <<>>, "", "")})
  /\ owner' = Idle
  /\ UNCHANGED <<Provider, Model, State, gos, log, svc, calls, fault,
                 resolveVars, listVars>>

ClosureFrameClearsSession ==
  Session' = [Id |-> 0] /\ UNCHANGED <<Messages, Provider, Model, State>>

\* The closures and goroutines (lines 134-197, 247-261, 267-279, 344-362) read
\* a.Session, a.Provider, a.Model and a.State and assign none of them.
ClosureFrame == UNCHANGED <<Session, Messages, Provider, Model, State>>

ChatResultSilent(call, outcome) == {}

\* Lines 351-361: what the chat closure returns: an error toast on a transport
\* error or a status other than 200, else nil (no message).
ChatResult(call, outcome) ==
  IF outcome \in Failures THEN {ChatToast(call, outcome)} ELSE {}

GoResultToast(call, outcome) ==
  IF outcome \in Failures THEN {ChatToast(call, outcome)} ELSE {}

\* Lines 253-260 and 273-278: a failure is logged with slog.Error; the goroutine
\* hands nothing to the owner, whatever the answer.
GoResult(call, outcome) == {}

InitializeBodyNoSession ==
  Event("Initialize", "InitializeProject", "go", 0, 0, Provider.Id, Model.Id)

\* Lines 248-252: the body of the initialize request, read from the App when
\* the goroutine runs (call 0: the body does not name the call).
InitializeBody ==
  Event("Initialize", "InitializeProject", "go", 0, Session.Id, Provider.Id, Model.Id)

\* The chat closure (lines 344-350) runs: it reads a.Session, a.Provider and
\* a.Model as they are now and issues the request; a nil Provider or Model is
\* a nil dereference.
ChatIssue ==
  /\ ~fault
  /\ \E c \in cmds :
       /\ c.kind = "Chat"
       /\ IF Provider.nil \/ Model.nil
          THEN /\ fault' = TRUE
               /\ UNCHANGED <<cmds, log>>
          ELSE /\ cmds' = (cmds \ {c}) \cup {[c EXCEPT !.kind = "ChatWait"]}
               /\ log' = log \cup {Event("Chat", "SendChatMessage", "cmd", c.call,
                                         Session.Id, Provider.Id, Model.Id)}
               /\ UNCHANGED fault
  /\ ClosureFrame
  /\ UNCHANGED <<owner, gos, svc, now, calls, resolveVars, listVars>>

\* Lines 351-361: the response of the chat request; a failure makes the
\* closure return an error toast, success makes it return nil.
ChatRespond ==
  /\ ~fault
  /\ \E c \in cmds, outcome \in Outcomes :
       /\ c.kind = "ChatWait"
       /\ cmds' = (cmds \ {c}) \cup ChatResult(c.call, outcome)
       /\ log' = log \cup {Answer("ChatAnswer", "SendChatMessage", c.call, outcome)}
  /\ ClosureFrame
  /\ UNCHANGED <<owner, gos, svc, now, calls, fault, resolveVars, listVars>>

\* InitializeProject (lines 235-238): the owner issues CreateSession and waits.
InitializeProjectCreate ==
  /\ ~fault /\ owner.pc = "idle" /\ MayCall
  /\ owner' = Waiting("InitializeProject", NextCall, "")
  /\ log' = log \cup {Event("CreateSession", "InitializeProject", "owner", NextCall,
                            0, "", "")}
  /\ calls' = [calls EXCEPT !.project = @ + 1]
  /\ UNCHANGED <<Session, Messages, Provider, Model, State, cmds, gos, svc, now,
                 fault, resolveVars, listVars>>

\* Lines 239-242: CreateSession failed; the call returns nil.
InitializeProjectAbort ==
  /\ ~fault /\ owner.pc = "InitializeProject" /\ owner.resp # "none"
  /\ CreateSessionFails(owner.resp)
  /\ owner' = Idle
  /\ UNCHANGED <<Session, Messages, Provider, Model, State, cmds, gos, log, svc,
                 now, calls, fault, resolveVars, listVars>>

\* Lines 244-263: the session is stored, the goroutine started, the
\* session-selected command returned.
InitializeProjectCreated ==
  /\ ~fault /\ owner.pc = "InitializeProject" /\ owner.resp # "none"
  /\ ~CreateSessionFails(owner.resp)
  /\ Session' = StoredSession(Session, [Id |-> svc])
  /\ cmds' = cmds \cup {Task("SessionSelected", owner.call, svc, <<>>, "", "")}
  /\ gos' = gos \cup {Cmd("Initialize", owner.call)}
  /\ owner' = Idle
  /\ UNCHANGED <<Messages, Provider, Model, State, log, svc, now, calls, fault,
                 resolveVars, listVars>>

\* CompactSession (lines 266-281): starts the goroutine and returns nil.
CompactSession ==
  /\ ~fault /\ owner.pc = "idle" /\ MayCall
  /\ gos' = gos \cup {Cmd("Summarize", NextCall)}
  /\ calls' = [calls EXCEPT !.compact = @ + 1]
  /\ UNCHANGED <<Session, Messages, Provider, Model, State, owner, cmds, log, svc,
                 now, fault, resolveVars, listVars>>

\* The goroutine of lines 247-261: it reads a.Session, a.Provider and a.Model
\* when it runs, issues the initialize request and only logs a failure; a nil
\* Provider or Model is a nil dereference.  The history entry of the request
\* is its body tagged with the call that started the goroutine.
GoInitialize ==
  /\ ~fault
  /\ \E g \in gos, outcome \in Outcomes :
       /\ g.kind = "Initialize"
       /\ IF Provider.nil \/ Model.nil
          THEN /\ fault' = TRUE
               /\ UNCHANGED <<gos, log, cmds>>
          ELSE /\ gos' = gos \ {g}
               /\ log' = log \cup {[InitializeBody EXCEPT !.call = g.call],
                                    Answer("InitializeAnswer", "InitializeProject",
                                           g.call, outcome)}
               /\ cmds' = cmds \cup GoResult(g.call, outcome)
               /\ UNCHANGED fault
  /\ ClosureFrame
  /\ UNCHANGED <<owner, svc, now, calls, resolveVars, listVars>>

\* The goroutine of lines 267-279, likewise, with the summarize request.
GoSummarize ==
  /\ ~fault
  /\ \E g \in gos, outcome \in Outcomes :
       /\ g.kind = "Summarize"
       /\ IF Provider.nil \/ Model.nil
          THEN /\ fault' = TRUE
               /\ UNCHANGED <<gos, log, cmds>>
          ELSE /\ gos' = gos \ {g}
               /\ log' = log \cup {Event("Summarize", "CompactSession", "go",
                                         g.call, Session.Id, Provider.Id, Model.Id),
                                    Answer("SummarizeAnswer", "CompactSession",
                                           g.call, outcome)}
               /\ cmds' = cmds \cup GoResult(g.call, outcome)
               /\ UNCHANGED fault
  /\ ClosureFrame
  /\ UNCHANGED <<owner, svc, now, calls, resolveVars, listVars>>

\* InitializeProvider (line 133): returns the command, nothing else.
InitializeProvider ==
  /\ ~fault /\ owner.pc = "idle" /\ MayCall
  /\ cmds' = cmds \cup {Cmd("InitProvider", NextCall)}
  /\ calls' = [calls EXCEPT !.provider = @ + 1]
  /\ UNCHANGED <<Session, Messages, Provider, Model, State, owner, gos, log, svc,
                 now, fault, resolveVars, listVars>>

\* What the provider list request is answered with under Spec.
MainResponses ==
  {[status |-> "err", Providers |-> <<>>, Default |-> <<>>],
   [status |-> "ok",
    Providers |-> <<[Id |-> "openai", Models |-> {"m2"}],
                    [Id |-> "anthropic", Models |-> {"m1"}]>>,
    Default |-> [id \in {"anthropic"} |-> "m1"]]}

\* The command of InitializeProvider (lines 134-197) runs.
InitializeProviderCmd ==
  /\ ~fault
  /\ \E c \in cmds, resp \in MainResponses :
       /\ c.kind = "InitProvider"
       /\ \E pick \in Picks(resp) :
            LET r == ResolveProvider(resp, State, pick)
            IN /\ fault' = (r.kind = "panic")
               /\ cmds' = IF r.kind = "msg"
                          THEN (cmds \ {c}) \cup
                                 {Task("ModelSelected", c.call, 0, <<>>,
                                       r.Provider.Id, r.Model.Id)}
                          ELSE cmds \ {c}
       /\ log' = log \cup {Event("ProviderList", "InitializeProvider", "cmd", c.call,
                                 0, "", "")}
  /\ ClosureFrame
  /\ UNCHANGED <<owner, gos, svc, now, calls, resolveVars, listVars>>

\* Cancel (lines 369-384): the abort request and its answer; the call returns
\* the error or nil and assigns nothing.
Cancel ==
  /\ ~fault /\ owner.pc = "idle" /\ MayCall
  /\ calls' = [calls EXCEPT !.cancel = @ + 1]
  /\ UNCHANGED <<Session, Messages, Provider, Model, State, owner, cmds, gos, log,
                 svc, now, fault, resolveVars, listVars>>

\* DeleteSession (lines 406-417): the delete request and its answer; likewise.
DeleteSession ==
  /\ ~fault /\ owner.pc = "idle" /\ MayCall
  /\ calls' = [calls EXCEPT !.delete = @ + 1]
  /\ UNCHANGED <<Session, Messages, Provider, Model, State, owner, cmds, gos, log,
                 svc, now, fault, resolveVars, listVars>>

\* The owner takes a command's message from the runtime.  What the owner does
\* with it is outside app.go: a ModelSelectedMsg becomes the selection and the
\* persisted state; an OptimisticMessageAddedMsg changes nothing of the App and
\* its delivery is recorded; the session-selected and toast commands stay in
\* cmds as issued, their delivery changing nothing here.
DeliverModelSelected ==
  /\ ~fault /\ owner.pc = "idle"
  /\ \E c \in cmds :
       /\ c.kind = "ModelSelected"
       /\ Provider' = [nil |-> FALSE, Id |-> c.prov, Models |-> {c.mod}]
       /\ Model' = ModelPtr(c.mod)
       /\ State' = [Provider |-> c.prov, Model |-> c.mod]
       /\ cmds' = cmds \ {c}
  /\ UNCHANGED <<Session, Messages, owner, gos, log, svc, now, calls, fault,
                 resolveVars, listVars>>

DeliverOptimisticAdded ==
  /\ ~fault /\ owner.pc = "idle"
  /\ \E c \in cmds :
       /\ c.kind = "OptimisticAdded"
       /\ cmds' = cmds \ {c}
       /\ log' = log \cup {Event("notify", "SendChatMessage", "owner", c.call,
                                 c.sid, "", "")}
  /\ UNCHANGED <<Session, Messages, Provider, Model, State, owner, gos, svc, now,
                 calls, fault, resolveVars, listVars>>

\* The streaming channel marks the last message complete.
StreamComplete ==
  /\ ~fault /\ owner.pc = "idle"
  /\ Len(Messages) > 0
  /\ Messages[Len(Messages)].Completed.nil
  /\ Messages' = [Messages EXCEPT ![Len(Messages)].Completed = TimePtr(now)]
  /\ UNCHANGED <<Session, Provider, Model, State, owner, cmds, gos, log, svc, now,
                 calls, fault, resolveVars, listVars>>

Init ==
  /\ MainInit
  /\ State = [Provider |-> "", Model |-> ""]
  /\ ResolveIdle
  /\ ListIdle

Next ==
  \/ SendChatMessage
  \/ SendChatMessageCreate
  \/ CreateSessionResponse
  \/ SendChatMessageAbort
  \/ SendChatMessageCreated
  \/ ChatIssue
  \/ ChatRespond
  \/ InitializeProjectCreate
  \/ InitializeProjectAbort
  \/ InitializeProjectCreated
  \/ CompactSession
  \/ GoInitialize
  \/ GoSummarize
  \/ InitializeProvider
  \/ InitializeProviderCmd
  \/ Cancel
  \/ DeleteSession
  \/ DeliverModelSelected
  \/ DeliverOptimisticAdded
  \/ StreamComplete

Spec == Init /\ [][Next]_vars

\* ============================================================ claims
\* --------------------------------------------- SpecResolve: C1 .. C3
Resolved == resolved.kind # "pending"
Fetched == response.status = "ok" /\ Len(response.Providers) > 0
HasAnthropic == \E p \in Range(response.Providers) : p.Id = "anthropic"
\* A default model can be computed for p: an entry of the default map, or a model.
HasDefault(p) == HasKey(response.Default, p.Id) \/ p.Models # {}
\* The persisted pair names a fetched provider and one of its models.
PersistedMatches ==
  \E p \in Range(response.Providers) :
    p.Id = State.Provider /\ State.Model \in p.Models
\* The first position of the list whose provider has a default model, or 0.
FirstWithDefault ==
  IF \E i \in 1..Len(response.Providers) : HasDefault(response.Providers[i])
  THEN CHOOSE i \in 1..Len(response.Providers) :
         /\ HasDefault(response.Providers[i])
         /\ \A j \in 1..(i - 1) : ~HasDefault(response.Providers[j])
  ELSE 0

\* C1 as stated: whenever the fetched list holds "anthropic", it is the default
\* provider, whatever the models, and with an unmatched persisted selection the
\* ModelSelectedMsg carries "anthropic".  Stated of the runs that emit their
\* message, so that a violation does not rest on the nil dereference of line 195.
C1_AsStated ==
  (Resolved /\ Fetched /\ HasAnthropic /\ resolved.kind = "msg") =>
    /\ resolved.def.provider.Id = "anthropic"
    /\ ~PersistedMatches => resolved.Provider.Id = "anthropic"

\* C1 amended: when "anthropic" is in the fetched list and has a default model
\* (a default-map entry or at least one model), it is the default provider at
\* any position, and an unmatched persisted selection makes the command emit a
\* ModelSelectedMsg for "anthropic"; when it has neither, the default passes
\* to the first provider of the list that has one.
C1_AnthropicDefault ==
  (Resolved /\ Fetched /\ HasAnthropic) =>
    /\ (\E p \in Range(response.Providers) : p.Id = "anthropic" /\ HasDefault(p)) =>
         /\ resolved.def.provider.Id = "anthropic"
         /\ ~resolved.def.model.nil
         /\ ~PersistedMatches =>
              (resolved.kind = "msg" /\ resolved.Provider.Id = "anthropic")
    /\ (\E p \in Range(response.Providers) : p.Id = "anthropic" /\ ~HasDefault(p)) =>
         (FirstWithDefault # 0 =>
            resolved.def.provider.Id = response.Providers[FirstWithDefault].Id)

\* C1 witness: [openai, anthropic] with default map {anthropic: m1} and nothing
\* persisted resolves to anthropic / m1.
C1_Witness ==
  /\ Resolved /\ Fetched
  /\ Len(response.Providers) = 2
  /\ response.Providers[1].Id = "openai"
  /\ response.Providers[2].Id = "anthropic"
  /\ "m1" \in response.Providers[2].Models
  /\ DOMAIN response.Default = {"anthropic"}
  /\ response.Default["anthropic"] = "m1"
  /\ State = [Provider |-> "", Model |-> ""]
  /\ resolved.kind = "msg"
  /\ resolved.Provider.Id = "anthropic"
  /\ resolved.Model.Id = "m1"

\* C2 as stated: without "anthropic" the first provider of a non-empty list is
\* the default provider, also when it has no default-map entry and no models.
\* Stated of the runs that emit their message, as C1_AsStated is.
C2_AsStated ==
  (Resolved /\ Fetched /\ ~HasAnthropic /\ resolved.kind = "msg") =>
    resolved.def.provider.Id = response.Providers[1].Id

\* C2 amended: without "anthropic" the default provider is the first provider,
\* in the order returned, that has a default model (a default-map entry or at
\* least one model), so the first of the list whenever that one has; when no
\* provider has one it is the last of the list, with no default model.
C2_FirstWithDefault ==
  (Resolved /\ Fetched /\ ~HasAnthropic) =>
    /\ FirstWithDefault # 0 =>
         /\ resolved.def.provider.Id = response.Providers[FirstWithDefault].Id
         /\ ~resolved.def.model.nil
    /\ FirstWithDefault = 0 =>
         /\ resolved.def.provider.Id = response.Providers[Len(response.Providers)].Id
         /\ resolved.def.model.nil

\* C2 witness: two providers, neither "anthropic", the first with models and
\* no default-map entry, selected with one of its own models.
C2_Witness ==
  /\ Resolved /\ Fetched /\ ~HasAnthropic
  /\ Len(response.Providers) = 2
  /\ response.Providers[1].Models # {}
  /\ ~HasKey(response.Default, response.Providers[1].Id)
  /\ ~PersistedMatches
  /\ resolved.kind = "msg"
  /\ resolved.Provider.Id = response.Providers[1].Id
  /\ resolved.Model.Id \in response.Providers[1].Models

\* C3 as stated: on a fetched list the command emits the persisted pair when
\* both halves of it are found, and the computed default pair in every other
\* case; never the persisted provider with the default model or the reverse.
C3_AsStated ==
  (Resolved /\ Fetched) =>
    /\ resolved.kind = "msg"
    /\ PersistedMatches =>
         (resolved.Provider.Id = State.Provider /\ resolved.Model.Id = State.Model)
    /\ ~PersistedMatches =>
         (resolved.Provider = resolved.def.provider /\ resolved.Model = resolved.def.model)

\* ------------------------------------------- SpecResolve: C13 .. C14
\* Resolution cannot produce a provider and a model: the fetch failed, the
\* list is empty, or no fetched provider has a default model.
CannotResolve ==
  \/ response.status # "ok"
  \/ Len(response.Providers) = 0
  \/ \A p \in Range(response.Providers) : ~HasDefault(p)

\* C13 as stated: when resolution cannot produce a provider and a model the
\* command of InitializeProvider emits no message and raises no fault;
\* otherwise it emits one ModelSelectedMsg with provider and model both set.
C13_AsStated ==
  Resolved =>
    IF CannotResolve THEN resolved.kind = "none"
    ELSE resolved.kind = "msg" /\ ~resolved.Provider.nil /\ ~resolved.Model.nil

\* C14 as stated: the default model computed for the default provider is one
\* of that provider's own models, the one with the mapped id when the default
\* map has an entry for the provider.
C14_AsStated ==
  (Resolved /\ Fetched /\ ~resolved.def.model.nil) =>
    /\ resolved.def.model.Id \in resolved.def.provider.Models
    /\ HasKey(response.Default, resolved.def.provider.Id) =>
         resolved.def.model.Id = response.Default[resolved.def.provider.Id]

\* ------------------------------------------------- SpecStartup: C11
\* The pair names a fetched provider and one of its models.
Available(pair) ==
  \E p \in Range(response.Providers) : p.Id = pair.Provider /\ pair.Model \in p.Models
\* The provider and model the config's "provider/model" names.
ConfigPair == NewState(NoState, configModel)
Selected(pair) ==
  resolved.Provider.Id = pair.Provider /\ resolved.Model.Id = pair.Model

\* C11 as stated: the model selected at startup is the first that exists among
\* the fetched providers of (1) the model of the config, (2) the last used
\* model, (3) the computed default; a config model that is set but not
\* available gives way to the last used model before the default.  Stated of
\* the runs that emit their message.
C11_AsStated ==
  (Resolved /\ Fetched /\ resolved.kind = "msg") =>
    IF ~configModel.nil /\ Available(ConfigPair) THEN Selected(ConfigPair)
    ELSE IF Available(appState) THEN Selected(appState)
    ELSE /\ resolved.Provider = resolved.def.provider
         /\ resolved.Model = resolved.def.model

\* ------------------------------------------------ SpecList: C7 .. C8
Listed == listed.kind = "ok" /\ served.status = "ok"

\* C7: ListSessions returns the sessions the service delivered, each once,
\* ordered by creation time descending, in whatever order they were delivered.
C7_SortedDescending ==
  Listed =>
    /\ Len(listed.sessions) = Len(served.sessions)
    /\ Range(listed.sessions) = Range(served.sessions)
    /\ \A i, j \in 1..Len(listed.sessions) :
         i < j => listed.sessions[i].Created >= listed.sessions[j].Created

\* C7 witness: creation times [5, 1, 9] come back as [9, 5, 1].
C7_Witness ==
  /\ Listed
  /\ Len(served.sessions) = 3
  /\ [i \in 1..3 |-> served.sessions[i].Created] = <<5, 1, 9>>
  /\ [i \in 1..3 |-> listed.sessions[i].Created] = <<9, 5, 1>>
  /\ [i \in 1..3 |-> listed.sessions[i].Id] = <<3, 1, 2>>

\* C8 as stated: two sessions with the same creation time come out in the
\* relative order in which the service returned them (Id is that position).
C8_AsStated ==
  Listed =>
    \A i, j \in 1..Len(listed.sessions) :
      (i < j /\ listed.sessions[i].Created = listed.sessions[j].Created) =>
        listed.sessions[i].Id < listed.sessions[j].Id

\* ------------------------------------------------ Spec: C4 .. C6, C9, C10
Requests(ev) == {e \in log : e.ev = ev}
Last(messages) == messages[Len(messages)]
\* The step in which a SendChatMessage that had to create a session returns.
SendReturnsAfter(outcomes) ==
  owner.pc = "SendChatMessage" /\ owner.resp \in outcomes /\ owner'.pc = "idle"

\* C4: when SendChatMessage is called with no session and CreateSession
\* succeeds, the call has made exactly one CreateSession request, made before
\* the append, and appends exactly one message: role user, the given text, the
\* id of the new session, no completion time.  A SendChatMessage called with a
\* session makes no CreateSession request, and the session never becomes
\* empty again.
C4_LazySessionOnce ==
  [][/\ SendReturnsAfter({"ok"}) =>
          /\ Cardinality({e \in log : e.ev = "CreateSession" /\ e.call = owner.call}) = 1
          /\ Requests("CreateSession")' = Requests("CreateSession")
          /\ Session'.Id = svc /\ Session'.Id # 0 /\ Session.Id = 0
          /\ Len(Messages') = Len(Messages) + 1
          /\ \A i \in 1..Len(Messages) : Messages'[i] = Messages[i]
          /\ Last(Messages').Role = "user"
          /\ Last(Messages').Text = owner.text
          /\ Last(Messages').SessionID = Session'.Id
          /\ Last(Messages').Completed.nil
     /\ (calls'.send = calls.send + 1 /\ Session.Id # 0) =>
          /\ Requests("CreateSession")' = Requests("CreateSession")
          /\ svc' = svc /\ Session' = Session /\ owner'.pc = "idle"
          /\ Len(Messages') = Len(Messages) + 1
     /\ Session.Id # 0 => Session'.Id # 0]_vars

\* C4 witness: two sends, the first of which created session 1: one
\* CreateSession request, two messages, both of session 1.
C4_Witness ==
  /\ owner.pc = "idle" /\ calls.send = 2 /\ calls.project = 0
  /\ Cardinality(Requests("CreateSession")) = 1
  /\ svc = 1 /\ Session.Id = 1
  /\ Len(Messages) = 2
  /\ Messages[1].SessionID = 1 /\ Messages[2].SessionID = 1
  /\ Messages[1].Role = "user" /\ Messages[1].Text = "hi"

\* C5: when CreateSession fails (transport error or non-success status) in a
\* SendChatMessage with no session, the call returns an error toast command
\* and nothing else: Messages and Session are unchanged, no chat closure is
\* batched and no request made; no notification or chat request ever exists
\* for that call.
C5_CreateFailureAborts ==
  /\ [](\A c \in cmds :
          (c.kind = "Toast" /\ c.mid = <<"failed to create session">>) =>
             /\ \A d \in cmds :
                  d.call = c.call => d.kind \notin {"Chat", "ChatWait", "OptimisticAdded",
                                                    "SessionSelected"}
             /\ \A e \in log : e.call = c.call => e.ev = "CreateSession")
  /\ [][SendReturnsAfter(Failures) =>
          /\ Messages' = Messages
          /\ Session' = Session
          /\ CreateToast(owner.call) \notin cmds
          /\ cmds' = cmds \cup {CreateToast(owner.call)}
          /\ log' = log /\ gos' = gos /\ svc' = svc]_vars

\* C5 witness: the first send was aborted: its toast is issued, there is no
\* message and no session.
C5_Witness ==
  /\ owner.pc = "idle" /\ calls.send = 1
  /\ CreateToast(1) \in cmds
  /\ Messages = <<>> /\ Session.Id = 0
  /\ Requests("Chat") = {}

\* C6: IsBusy is true exactly when Messages is non-empty and its last message
\* has no completion time; it is false while Messages is empty and true right
\* after every step that appends a message.
C6_BusyState ==
  /\ [](IsBusy <=> (Len(Messages) > 0 /\ Last(Messages).Completed.nil))
  /\ [](Len(Messages) = 0 => ~IsBusy)
  /\ [][Len(Messages') > Len(Messages) => IsBusy']_vars

\* C6 witness: a second message was appended after the first was completed:
\* busy, though the first message is complete.
C6_Witness ==
  /\ Len(Messages) = 2
  /\ ~Messages[1].Completed.nil
  /\ Messages[2].Completed.nil
  /\ IsBusy

\* C9 as stated: when the chat request of a call is issued, the
\* OptimisticMessageAddedMsg of that call has been delivered to the owner.
C9_AsStated ==
  [][\A e \in log' \ log :
       e.ev = "Chat" => \E n \in log : n.ev = "notify" /\ n.call = e.call]_vars

\* C9 amended: when the chat request of a call is issued, the optimistic
\* message of that call is in Messages and its notification command has been
\* handed to the runtime (batched with the chat closure); the notification is
\* delivered to the owner before or after the request is issued.
C9_AppendedBeforeRequest ==
  [][\A e \in log' \ log :
       e.ev = "Chat" =>
         \E c \in cmds :
           /\ c.kind = "Chat" /\ c.call = e.call
           /\ \E i \in 1..Len(Messages) :
                Messages[i].Id = c.mid /\ Messages[i].Role = "user"
           /\ \/ \E n \in log : n.ev = "notify" /\ n.call = e.call
              \/ \E d \in cmds : d.kind = "OptimisticAdded" /\ d.call = e.call]_vars

\* C9 witness: a chat request is out while the notification of its call still
\* waits in the batch.
C9_Witness ==
  \E e \in log :
    /\ e.ev = "Chat"
    /\ ~\E n \in log : n.ev = "notify" /\ n.call = e.call
    /\ \E d \in cmds : d.kind = "OptimisticAdded" /\ d.call = e.call
    /\ Len(Messages) > 0

Yielded == cmds' \ cmds
\* The answers of the service that arrive in the step.
Answers(ev) == {a \in log' \ log : a.ev = ev}

\* C12: when the chat request of a SendChatMessage call is answered with a
\* transport error or a status other than 200, its closure yields exactly one
\* message, an error toast carrying the description of that failure; when it
\* is answered with 200 the closure yields no message.  Neither the issuing of
\* the request nor the handling of its answer changes Messages or Session.
C12_ChatFailureToast ==
  [][\A c \in cmds \ cmds' :
       /\ c.kind \in {"Chat", "ChatWait"} => (Messages' = Messages /\ Session' = Session)
       /\ c.kind = "ChatWait" =>
            /\ Cardinality(Answers("ChatAnswer")) = 1
            /\ \A a \in Answers("ChatAnswer") :
                 /\ a.call = c.call
                 /\ a.outcome \in Failures =>
                      /\ Cardinality(Yielded) = 1
                      /\ \A t \in Yielded :
                           /\ t.kind = "Toast" /\ t.call = c.call
                           /\ t.mid = <<"failed to send message: ", a.outcome>>
                 /\ a.outcome \notin Failures => Yielded = {}]_vars

\* C12 witness: of two chat requests one was answered 200 and left nothing,
\* the other was answered with a non-success status and left its toast; both
\* optimistic messages and the session are in place.
C12_Witness ==
  \E a, b \in log :
    /\ a.ev = "ChatAnswer" /\ a.outcome = "ok"
    /\ b.ev = "ChatAnswer" /\ b.outcome = "status"
    /\ \A t \in cmds : t.kind = "Toast" => t.call = b.call
    /\ \E t \in cmds : t.kind = "Toast" /\ t.mid = <<"failed to send message: ", "status">>
    /\ Len(Messages) = 2 /\ Session.Id = 1

\* C15: no step of the App other than the streaming channel marking the last
\* message complete removes a message, changes a message or sets a completion
\* time: Messages only grows at its end, and a busy session stays busy through
\* a further send, a failed or successful chat request, delete, abort, compact
\* and every other step.
C15_BusyUntilStreamComplete ==
  [][~StreamComplete =>
       /\ Len(Messages') >= Len(Messages)
       /\ \A i \in 1..Len(Messages) : Messages'[i] = Messages[i]
       /\ IsBusy => IsBusy']_vars

\* C15 witness: the chat request of the only send failed and a session was
\* deleted since; the optimistic message is still there, incomplete: busy.
C15_Witness ==
  /\ Len(Messages) = 1 /\ Messages[1].Completed.nil /\ IsBusy
  /\ \E a \in log : a.ev = "ChatAnswer" /\ a.outcome \in Failures
  /\ calls.delete = 1

\* A step of a command closure or of a background goroutine: a chat closure
\* or the command of InitializeProvider leaves the runtime, a goroutine
\* ends, or one of them dereferences nil.
ClosureStep ==
  \/ \E c \in cmds \ cmds' : c.kind \in {"Chat", "ChatWait", "InitProvider"}
  \/ gos \ gos' # {}
  \/ fault' # fault

\* C16: no step of a command closure or of a background goroutine started by
\* InitializeProvider, SendChatMessage, InitializeProject or CompactSession
\* writes Session, Messages, the Provider/Model selection or the persisted
\* State: every step that changes one of them is a step of the owner.
C16_SingleWriter ==
  [][ClosureStep => UNCHANGED <<Session, Messages, Provider, Model, State>>]_vars

\* C16 witness: the command of InitializeProvider, a chat closure and a
\* summarize goroutine have all run; the session and the message the owner
\* wrote are in place.
C16_Witness ==
  /\ \E e \in log : e.ev = "ProviderList" /\ e.by = "cmd"
  /\ \E e \in log : e.ev = "ChatAnswer"
  /\ \E e \in log : e.ev = "Summarize" /\ e.by = "go" /\ e.sid = 1
  /\ Session.Id = 1 /\ Len(Messages) = 1 /\ ~Provider.nil /\ ~Model.nil

\* C17 as stated: the chat request of a SendChatMessage call carries the
\* session id recorded in the optimistic message of that call (the message its
\* OptimisticMessageAddedMsg carries), whatever the owner did between the call
\* and the run of the closure.
C17_AsStated ==
  \A e \in log :
    e.ev = "Chat" =>
      /\ \A n \in log : (n.ev = "notify" /\ n.call = e.call) => n.sid = e.sid
      /\ \A c \in cmds : (c.kind = "OptimisticAdded" /\ c.call = e.call) => c.sid = e.sid

Initializes == Requests("Initialize")

C19_AsStated ==
  \A i, j \in 1..Len(Messages) : i # j => Messages[i].Id # Messages[j].Id

BackgroundAnswers == {"InitializeAnswer", "SummarizeAnswer"}

\* C20: whatever the service answers to the initialize request of
\* InitializeProject or to the summarize request of CompactSession (transport
\* error, non-success status or success), the goroutine hands no toast and no
\* message to the owner and changes no shared state; CompactSession returns
\* no command and returns before the summarize request is made.
C20_BackgroundErrorsSwallowed ==
  /\ [](\A t \in cmds :
          t.kind = "Toast" =>
            ~\E a \in log : a.ev \in BackgroundAnswers /\ a.call = t.call)
  /\ [][/\ \A a \in log' \ log :
            a.ev \in BackgroundAnswers =>
              /\ Yielded = {}
              /\ cmds' = cmds
              /\ UNCHANGED <<Session, Messages, Provider, Model, State, owner>>
              /\ \E g \in gos \ gos' : g.call = a.call
        /\ calls'.compact # calls.compact =>
             /\ cmds' = cmds /\ log' = log
             /\ owner.pc = "idle" /\ owner'.pc = "idle"
             /\ gos' \ gos = {Cmd("Summarize", NextCall)}
             /\ UNCHANGED <<Session, Messages, Provider, Model, State>>]_vars

\* C20 witness: the initialize request was answered with a transport error and
\* the summarize request with a non-success status; no toast exists and the
\* session InitializeProject stored is unchanged.
C20_Witness ==
  /\ \E a \in log : a.ev = "InitializeAnswer" /\ a.outcome = "err"
  /\ \E a \in log : a.ev = "SummarizeAnswer" /\ a.outcome = "status"
  /\ \A t \in cmds : t.kind # "Toast"
  /\ Session.Id = 1 /\ Messages = <<>> /\ gos = {} /\ owner.pc = "idle"
====
